---------------------------- MODULE Spec2Model ----------------------------
(***************************************************************************)
(* Model of medis (src/server.go): the MiniRedis store with its lock, lazy *)
(* expiry and background sweep, and the per-connection handler that parses *)
(* one command line at a time and drives the store.                        *)
(*                                                                         *)
(* Text is modelled as sequences of one-character strings, so that         *)
(* trimming, splitting, upper-casing, duration parsing and reply           *)
(* formatting are computed rather than assumed.  Time is counted in        *)
(* milliseconds; the zero time.Time is 0.                                  *)
(***************************************************************************)
EXTENDS Integers, Sequences, FiniteSets, TLC

---------------------------------------------------------------------------
(* Bounds of the model *)

\* clock steps per second: the clock advances in steps of
\* Second \div TicksPerSecond
TicksPerSecond == 1

\* seconds after the start at which the clock stops advancing
MaxSeconds == 4

---------------------------------------------------------------------------
(* Text helpers: strings, strconv, fmt *)

\* time.Second, in the model's unit (milliseconds)
Second == 1000

\* unicode.IsSpace restricted to the characters of the model's alphabet
IsSpace(c) == c \in {" ", "\t", "\r", "\n"}

Digits == <<"0", "1", "2", "3", "4", "5", "6", "7", "8", "9">>

IsDigit(c) == \E i \in 1..10 : Digits[i] = c

DigitVal(c) == (CHOOSE i \in 1..10 : Digits[i] = c) - 1

\* strings.TrimSpace
RECURSIVE TrimLeft(_)
TrimLeft(s) ==
    IF s # <<>> /\ IsSpace(Head(s)) THEN TrimLeft(Tail(s)) ELSE s

RECURSIVE TrimRight(_)
TrimRight(s) ==
    IF s # <<>> /\ IsSpace(s[Len(s)])
    THEN TrimRight(SubSeq(s, 1, Len(s) - 1))
    ELSE s

TrimSpace(s) == TrimRight(TrimLeft(s))

\* strings.Fields: the maximal runs of non-space characters, in order
RECURSIVE FieldsFrom(_, _, _)
FieldsFrom(s, cur, acc) ==
    IF s = <<>>
    THEN IF cur = <<>> THEN acc ELSE Append(acc, cur)
    ELSE IF IsSpace(Head(s))
         THEN FieldsFrom(Tail(s), <<>>,
                         IF cur = <<>> THEN acc ELSE Append(acc, cur))
         ELSE FieldsFrom(Tail(s), Append(cur, Head(s)), acc)

Fields(s) == FieldsFrom(s, <<>>, <<>>)

\* unicode.ToUpper on the letters of the model's alphabet
UpperChar(c) ==
    CASE c = "s" -> "S" [] c = "e" -> "E" [] c = "t" -> "T"
      [] c = "g" -> "G" [] c = "d" -> "D" [] c = "l" -> "L"
      [] c = "x" -> "X" [] c = "k" -> "K" [] c = "v" -> "V"
      [] c = "w" -> "W" [] c = "j" -> "J" [] c = "m" -> "M"
      [] c = "h" -> "H" [] c = "p" -> "P"
      [] OTHER -> c

\* strings.ToUpper
ToUpper(s) == [i \in 1..Len(s) |-> UpperChar(s[i])]

\* strconv.FormatInt(n, 10)
RECURSIVE FormatNat(_)
FormatNat(n) ==
    IF n < 10 THEN <<Digits[n + 1]>>
    ELSE Append(FormatNat(n \div 10), Digits[(n % 10) + 1])

FormatInt(n) == IF n < 0 THEN <<"-">> \o FormatNat(-n) ELSE FormatNat(n)

\* int64(d.Seconds()): conversion of the float to an integer truncates
\* toward zero
WholeSeconds(d) == IF d >= 0 THEN d \div Second ELSE -((-d) \div Second)

Drop(s, n) == SubSeq(s, n + 1, Len(s))

\* number of leading decimal digits of s
RECURSIVE DigitRun(_)
DigitRun(s) ==
    IF s # <<>> /\ IsDigit(Head(s)) THEN 1 + DigitRun(Tail(s)) ELSE 0

\* value of a sequence of decimal digits (0 for the empty one)
RECURSIVE NatOf(_)
NatOf(s) ==
    IF s = <<>> THEN 0
    ELSE 10 * NatOf(SubSeq(s, 1, Len(s) - 1)) + DigitVal(s[Len(s)])

RECURSIVE Pow10(_)
Pow10(n) == IF n = 0 THEN 1 ELSE 10 * Pow10(n - 1)

\* number of leading characters of s that are neither '.' nor a digit
RECURSIVE UnitRun(_)
UnitRun(s) ==
    IF s # <<>> /\ Head(s) # "." /\ ~IsDigit(Head(s))
    THEN 1 + UnitRun(Tail(s))
    ELSE 0

\* time.ParseDuration's unit map, in milliseconds; 0 stands for a unit that
\* is not in the map.  The sub-millisecond units are not in the model's
\* alphabet.
UnitOf(u) ==
    CASE u = <<"m", "s">> -> 1
      [] u = <<"s">> -> Second
      [] u = <<"m">> -> 60 * Second
      [] u = <<"h">> -> 3600 * Second
      [] OTHER -> 0

DurationError == [ok |-> FALSE, d |-> 0]

\* the loop of time.ParseDuration: ([0-9]*(\.[0-9]*)?[a-z]+)+
RECURSIVE ParseItems(_, _)
ParseItems(s, d) ==
    IF s = <<>> THEN [ok |-> TRUE, d |-> d]
    ELSE IF ~(Head(s) = "." \/ IsDigit(Head(s))) THEN DurationError
    ELSE LET pre    == DigitRun(s)
             v      == NatOf(SubSeq(s, 1, pre))
             s1     == Drop(s, pre)
             hasDot == s1 # <<>> /\ Head(s1) = "."
             s2     == IF hasDot THEN Tail(s1) ELSE s1
             post   == IF hasDot THEN DigitRun(s2) ELSE 0
             f      == NatOf(SubSeq(s2, 1, post))
             scale  == Pow10(post)
             s3     == Drop(s2, post)
             ul     == UnitRun(s3)
             unit   == UnitOf(SubSeq(s3, 1, ul))
         IN  IF pre = 0 /\ post = 0 THEN DurationError
             ELSE IF ul = 0 THEN DurationError
             ELSE IF unit = 0 THEN DurationError
             ELSE ParseItems(Drop(s3, ul),
                             d + v * unit + ((f * unit) \div scale))

\* time.ParseDuration: [-+]?([0-9]*(\.[0-9]*)?[a-z]+)+
ParseDuration(s) ==
    LET signed == s # <<>> /\ Head(s) \in {"-", "+"}
        neg    == signed /\ Head(s) = "-"
        body   == IF signed THEN Tail(s) ELSE s
    IN  IF body = <<"0">> THEN [ok |-> TRUE, d |-> 0]
        ELSE IF body = <<>> THEN DurationError
        ELSE LET r == ParseItems(body, 0)
             IN  IF r.ok /\ neg THEN [ok |-> TRUE, d |-> -r.d] ELSE r

---------------------------------------------------------------------------
(* Inputs: the connections and the raw lines a client may send *)

Conns == {"c1", "c2"}

\* the connection of the single-client specification
Solo == {"c1"}

SET == <<"S", "E", "T">>
GET == <<"G", "E", "T">>
DEL == <<"D", "E", "L">>
TTL == <<"T", "T", "L">>
EX  == <<"E", "X">>

K == <<"k">>
J == <<"j">>
V == <<"v">>
MinusOne == <<"-", "1">>

\* the words joined by single blanks and ended by the line delimiter, as
\* the client (src/client.go) and any other peer writes a command
RECURSIVE Joined(_)
Joined(ws) ==
    IF ws = <<>> THEN <<>>
    ELSE IF Len(ws) = 1 THEN Head(ws)
    ELSE Head(ws) \o <<" ">> \o Joined(Tail(ws))

Line(ws) == Joined(ws) \o <<"\n">>

\* what client.go sends: the line and "\r\n"
ClientLine(ws) == Joined(ws) \o <<"\r", "\n">>

Lines ==
    { Line(<<SET, K, V>>),
      Line(<<SET, K, MinusOne>>),
      ClientLine(<<<<"s", "e", "t">>, K, V, <<"e", "x">>, <<"1">>>>),
      Line(<<SET, K, V, EX, <<"0">>>>),
      Line(<<SET, K, V, EX, MinusOne>>),
      Line(<<SET, K, V, EX, <<"1", "m">>>>),
      Line(<<SET, K, V, EX, <<"x">>>>),
      Line(<<SET, K>>),
      Line(<<SET, K, V, EX>>),
      Line(<<SET, K, V, <<"P", "X">>, <<"1">>>>),
      Line(<<SET, K, V, EX, <<"1">>, V>>),
      <<" ", "\t">> \o ClientLine(<<GET, <<" ">> \o K>>),
      Line(<<GET>>),
      Line(<<GET, K, V>>),
      Line(<<DEL, K>>),
      Line(<<DEL>>),
      Line(<<TTL, K>>),
      Line(<<TTL, K, K>>),
      Line(<<SET, K, V, EX, <<".", "5">>>>),
      Line(<<SET, J, MinusOne>>),
      Line(<<GET, J>>),
      Line(<<<<"P", "I", "N", "G">>>>),
      <<"\n">>,
      <<" ", "\r", "\n">> }

\* the lines of the two-client specification
FewLines ==
    { Line(<<SET, K, MinusOne>>),
      ClientLine(<<<<"s", "e", "t">>, K, V, <<"e", "x">>, <<"1">>>>),
      Line(<<GET, K>>),
      Line(<<DEL, K>>),
      Line(<<TTL, K>>),
      Line(<<TTL>>),
      <<"\r", "\n">> }

---------------------------------------------------------------------------
(* Replies written to the connection *)

\* a fixed message is kept as one chunk of text before its line delimiter
ReplyOK         == <<"O", "K", "\n">>
ReplyNil        == <<"$", "-", "1", "\n">>
ReplyNoKey      == <<"-", "2", "\n">>
ReplySetArity   == <<"ERR wrong number of arguments for 'SET' command", "\n">>
ReplyBadExpire  == <<"ERR invalid expire time", "\n">>
ReplyGetArity   == <<"-ERR wrong number of arguments for 'GET' command", "\n">>
ReplyDelArity   == <<"-ERR wrong number of arguments for 'DEL' command", "\n">>
ReplyTtlArity   == <<"-ERR wrong number of arguments for 'TTL' command", "\n">>
ReplyUnknown    == <<"-ERR unknown command", "\n">>

\* fmt.Sprintf("$%s\n", value)
ReplyValue(value) == <<"$">> \o value \o <<"\n">>

\* strconv.FormatInt(ttl, 10) + "\n"
ReplyInt(n) == FormatInt(n) \o <<"\n">>

---------------------------------------------------------------------------
(* The store: pure effect of each operation on the map *)

\* the zero time.Time
ZeroTime == 0

\* time.Time.IsZero
IsZero(t) == t = ZeroTime

\* time.Time.After and time.Time.Before
After(t, u) == t > u
Before(t, u) == t < u

\* an assignment that updates the value and leaves a present key's expiry
\* in place when the new entry has none
PutKeepExpiry(d, key, entry) ==
    [x \in DOMAIN d \cup {key} |->
        IF x # key THEN d[x]
        ELSE IF key \in DOMAIN d /\ entry.expiry = 0
             THEN [value |-> entry.value, expiry |-> d[key].expiry]
             ELSE entry]

\* an assignment that updates the expiry and leaves a present key's value
\* in place
PutKeepValue(d, key, entry) ==
    [x \in DOMAIN d \cup {key} |->
        IF x # key THEN d[x]
        ELSE IF key \in DOMAIN d
             THEN [value |-> d[key].value, expiry |-> entry.expiry]
             ELSE entry]

\* m.data[key] = entry
Put(d, key, entry) ==
    [x \in DOMAIN d \cup {key} |-> IF x = key THEN entry ELSE d[x]]

\* a delete that empties the map
RemoveAll(d, key) == [x \in {} |-> d[x]]

\* delete(m.data, key)
Remove(d, key) == [x \in DOMAIN d \ {key} |-> d[x]]

\* Set, lines 36-43: the entry written for (value, expiresDuration) at
\* clock reading t; hasDur is expiresDuration != nil
NewEntry(value, hasDur, dur, t) ==
    [value  |-> value,
     expiry |-> IF hasDur /\ dur > 0 THEN t + dur ELSE ZeroTime]

\* Get serving an entry at the very instant of its expiry
AliveAtExpiry(e, t) == IsZero(e.expiry) \/ ~Before(e.expiry, t)

\* Get, line 53: the entry is served
Alive(e, t) == IsZero(e.expiry) \/ After(e.expiry, t)

\* a sweep that removes what expires within the coming second
SweptAhead(e, t) == ~IsZero(e.expiry) /\ Before(e.expiry, t + Second)

\* a sweep without the test for the zero time
SweptZero(e, t) == Before(e.expiry, t)

\* a sweep with the comparison turned round
SweptInverted(e, t) == ~IsZero(e.expiry) /\ After(e.expiry, t)

\* a sweep that also removes what expires at the very instant of the pass
SweptAtExpiry(e, t) == ~IsZero(e.expiry) /\ ~After(e.expiry, t)

\* cleanupExpiredKeys, line 93: the entry is swept
Swept(e, t) == ~IsZero(e.expiry) /\ Before(e.expiry, t)

\* cleanupExpiredKeys, lines 91-96: one pass at clock reading t
SweepData(d, t) ==
    [x \in {y \in DOMAIN d : ~Swept(d[y], t)} |-> d[x]]

\* a Get that hides an expired entry and leaves it in the map
GetOutcomeHiding(d, key, t) ==
    IF key \in DOMAIN d /\ (d[key].expiry = 0 \/ d[key].expiry > t)
    THEN [found |-> TRUE, value |-> d[key].value, data |-> d]
    ELSE [found |-> FALSE, value |-> <<>>, data |-> d]

\* a Get that renews the expiry of the entry it serves (three seconds more)
GetOutcomeTouch(d, key, t) ==
    IF key \notin DOMAIN d
    THEN [found |-> FALSE, value |-> <<>>, data |-> d]
    ELSE IF Alive(d[key], t)
         THEN [found |-> TRUE, value |-> d[key].value,
               data  |-> IF IsZero(d[key].expiry) THEN d
                         ELSE Put(d, key, [d[key] EXCEPT
                                             !.expiry = t + 3 * Second])]
         ELSE [found |-> FALSE, value |-> <<>>, data |-> Remove(d, key)]

\* Get, lines 49-58, at clock reading t: the result and the map afterwards
GetOutcome(d, key, t) ==
    IF key \notin DOMAIN d
    THEN [found |-> FALSE, value |-> <<>>, data |-> d]
    ELSE IF Alive(d[key], t)
         THEN [found |-> TRUE, value |-> d[key].value, data |-> d]
         ELSE [found |-> FALSE, value |-> <<>>, data |-> Remove(d, key)]

\* a TTL that still counts the entry as held at the instant of its expiry
TTLBranchAtExpiry(d, key, t) ==
    IF key \notin DOMAIN d THEN "absent"
    ELSE IF IsZero(d[key].expiry) THEN "noexpiry"
    ELSE IF ~Before(d[key].expiry, t) THEN "future"
    ELSE "expired"

\* TTL, lines 70-81, up to and including the test of line 77 at clock
\* reading t: which return is taken
TTLBranch(d, key, t) ==
    IF key \notin DOMAIN d THEN "absent"
    ELSE IF IsZero(d[key].expiry) THEN "noexpiry"
    ELSE IF After(d[key].expiry, t) THEN "future"
    ELSE "expired"

\* TTL, line 78: the number returned, with the clock read again at t2
Remaining(e, t2) == WholeSeconds(e.expiry - t2)

---------------------------------------------------------------------------
(* The handler's parsing and dispatch, lines 136-187, up to the store call *)

\* the locals of handleRequest during a store call: cmdParts and
\* expiresDuration (hasDur: it is not nil), and, inside TTL, the clock
\* reading of line 77
NoCall == [parts |-> <<>>, hasDur |-> FALSE, dur |-> 0, seen |-> 0]

Call(parts, hasDur, dur) ==
    [parts |-> parts, hasDur |-> hasDur, dur |-> dur, seen |-> 0]

\* strings.Fields(strings.TrimSpace(cmdLine))
Tokens(line) == Fields(TrimSpace(line))

\* lines 141-156: a SET line either is answered at once or calls Set
DispatchSet(parts) ==
    IF Len(parts) < 3
    THEN [reply |-> ReplySetArity, call |-> NoCall]
    ELSE IF Len(parts) = 5 /\ ToUpper(parts[4]) = EX
         THEN LET r == ParseDuration(parts[5] \o <<"s">>)
              IN  IF ~r.ok
                  THEN [reply |-> ReplyBadExpire, call |-> NoCall]
                  ELSE [reply |-> <<>>, call |-> Call(parts, TRUE, r.d)]
         ELSE [reply |-> <<>>, call |-> Call(parts, FALSE, 0)]

\* lines 158-187: GET, DEL and TTL take exactly two tokens
DispatchUnary(parts, arityReply) ==
    IF Len(parts) # 2
    THEN [reply |-> arityReply, call |-> NoCall]
    ELSE [reply |-> <<>>, call |-> Call(parts, FALSE, 0)]

\* lines 138-190: the switch on the upper-cased first token
Dispatch(parts) ==
    LET action == ToUpper(parts[1])
    IN  CASE action = SET -> DispatchSet(parts)
          [] action = GET -> DispatchUnary(parts, ReplyGetArity)
          [] action = DEL -> DispatchUnary(parts, ReplyDelArity)
          [] action = TTL -> DispatchUnary(parts, ReplyTtlArity)
          [] OTHER -> [reply |-> ReplyUnknown, call |-> NoCall]

---------------------------------------------------------------------------
(* State *)

VARIABLES
    data,      \* MiniRedis.data: key -> [value, expiry]
    mu,        \* MiniRedis.mu: "free", or the task that holds it
    now,       \* the clock read by time.Now()
    tickC,     \* ticker.C holds a tick (a channel of capacity one)
    spc,       \* position of cleanupExpiredKeys: "wait", "lock", "crit"
    pc,        \* position of each handleRequest task
    op,        \* its locals cmdParts and expiresDuration during a store call
    last,      \* the last command answered: who, what, and the result
    pass,      \* the last sweep pass: the keys it removed, and the keys
               \* with an expiry that it kept
    net,       \* each connection's transport: "up"; "down" once the peer is
               \* gone; "failed" once a conn.Write on it returned an error
    crashed    \* the process died of an unrecovered panic

vars == <<data, mu, now, tickC, spc, pc, op, last, pass, net, crashed>>

\* the instant the process starts: any instant after the zero time
StartTime == Second

ClockStep == Second \div TicksPerSecond

\* NewMiniRedis, line 28
SweepInterval == 3 * Second

\* the record of a command answered: the connection, its tokens, whether
\* the key had an entry and whether that entry had an expiry when the store
\* was called, what the store returned, and the reply written
Answer(c, parts, had, timed, found, value, n, reply) ==
    [conn |-> c, parts |-> parts, had |-> had, timed |-> timed,
     found |-> found, value |-> value, n |-> n, reply |-> reply]

Had(key) == key \in DOMAIN data

Timed(key) == key \in DOMAIN data /\ ~IsZero(data[key].expiry)

Init ==
    /\ data = <<>>
    /\ mu = "free"
    /\ now = StartTime
    /\ tickC = FALSE
    /\ spc = "wait"
    /\ pc = [c \in Conns |-> "none"]
    /\ op = [c \in Conns |-> NoCall]
    /\ last = Answer("none", <<>>, FALSE, FALSE, FALSE, <<>>, 0, <<>>)
    /\ pass = [removed |-> {}, kept |-> {}]
    /\ net = [c \in Conns |-> "up"]
    /\ crashed = FALSE

---------------------------------------------------------------------------
(* The clock and the ticker *)

\* time passes; the ticker puts a tick in its channel every SweepInterval,
\* and drops it when the channel is full
Tick ==
    /\ ~crashed
    /\ now + ClockStep <= StartTime + MaxSeconds * Second
    /\ now' = now + ClockStep
    /\ tickC' = (tickC \/ ((now' - StartTime) \div SweepInterval
                             > (now - StartTime) \div SweepInterval))
    /\ UNCHANGED <<data, mu, spc, pc, op, last, pass, net, crashed>>

---------------------------------------------------------------------------
(* handleRequest: one task per connection *)

\* _, _ = conn.Write(...): the write fails when the peer is gone, and the
\* error is dropped
Write(c) == net' = [net EXCEPT ![c] = IF @ = "down" THEN "failed" ELSE @]

\* the peer closes or resets the connection; lines it sent before are
\* still in the handler's bufio.Reader
PeerGone(c) ==
    /\ ~crashed
    /\ pc[c] # "none"
    /\ net[c] = "up"
    /\ net' = [net EXCEPT ![c] = "down"]
    /\ UNCHANGED <<data, mu, now, tickC, spc, pc, op, last, pass, crashed>>

\* main, lines 115-120: a connection is accepted and its task started
Accept(c) ==
    /\ ~crashed
    /\ pc[c] = "none"
    /\ pc' = [pc EXCEPT ![c] = "read"]
    /\ UNCHANGED <<data, mu, now, tickC, spc, op, last, pass, net, crashed>>

\* lines 131-139 and the switch up to the store call: read a line, split
\* it, and either answer at once or go on to the store's lock.  A line with
\* no token indexes cmdParts[0] of an empty slice: the panic is not
\* recovered and ends the process.
handleRequest(c, line) ==
    /\ ~crashed
    /\ pc[c] = "read"
    /\ LET parts == Tokens(line)
       IN  IF Len(parts) = 0
           THEN /\ crashed' = TRUE
                /\ UNCHANGED <<pc, op, last, net>>
           ELSE LET r == Dispatch(parts)
                IN  IF r.call = NoCall
                    THEN /\ last' = Answer(c, parts, FALSE, FALSE, FALSE, <<>>,
                                           0, r.reply)
                         /\ Write(c)
                         /\ UNCHANGED <<pc, op, crashed>>
                    ELSE /\ pc' = [pc EXCEPT ![c] = "lock"]
                         /\ op' = [op EXCEPT ![c] = r.call]
                         /\ UNCHANGED <<last, net, crashed>>
    /\ UNCHANGED <<data, mu, now, tickC, spc, pass>>

\* lines 131-135: the read fails (the peer closed): the task returns and the
\* deferred conn.Close() runs
ReadError(c) ==
    /\ ~crashed
    /\ pc[c] = "read"
    /\ pc' = [pc EXCEPT ![c] = "closed"]
    /\ UNCHANGED <<data, mu, now, tickC, spc, op, last, pass, net, crashed>>

\* a lock that does not wait for its holder
LockBarging(c) ==
    /\ ~crashed
    /\ pc[c] = "lock"
    /\ mu' = c
    /\ pc' = [pc EXCEPT ![c] = "crit"]
    /\ UNCHANGED <<data, now, tickC, spc, op, last, pass, net, crashed>>

\* m.mu.Lock() at the head of Set, Get, Delete and TTL
Lock(c) ==
    /\ ~crashed
    /\ pc[c] = "lock"
    /\ mu = "free"
    /\ mu' = c
    /\ pc' = [pc EXCEPT ![c] = "crit"]
    /\ UNCHANGED <<data, now, tickC, spc, op, last, pass, net, crashed>>

InCall(c, name) == pc[c] = "crit" /\ ToUpper(op[c].parts[1]) = name

\* the deferred m.mu.Unlock(), the reply written by handleRequest, and the
\* return to the head of its loop
Return(c, found, value, n, reply) ==
    /\ mu' = "free"
    /\ pc' = [pc EXCEPT ![c] = "read"]
    /\ op' = [op EXCEPT ![c] = NoCall]
    /\ last' = Answer(c, op[c].parts, Had(op[c].parts[2]),
                      Timed(op[c].parts[2]), found, value, n, reply)
    /\ Write(c)

\* Set, lines 36-43, and lines 156-157
Set(c) ==
    /\ ~crashed
    /\ InCall(c, SET)
    /\ data' = Put(data, op[c].parts[2],
                   NewEntry(op[c].parts[3], op[c].hasDur, op[c].dur, now))
    /\ Return(c, FALSE, <<>>, 0, ReplyOK)
    /\ UNCHANGED <<now, tickC, spc, pass, crashed>>

\* Get, lines 49-58, and lines 163-169
Get(c) ==
    /\ ~crashed
    /\ InCall(c, GET)
    /\ LET key == op[c].parts[2]
           r   == GetOutcome(data, key, now)
       IN  /\ data' = r.data
           /\ Return(c, r.found, r.value, 0,
                     IF r.found THEN ReplyValue(r.value) ELSE ReplyNil)
    /\ UNCHANGED <<now, tickC, spc, pass, crashed>>

\* Delete, line 64, and lines 175-176
Delete(c) ==
    /\ ~crashed
    /\ InCall(c, DEL)
    /\ data' = Remove(data, op[c].parts[2])
    /\ Return(c, FALSE, <<>>, 0, ReplyOK)
    /\ UNCHANGED <<now, tickC, spc, pass, crashed>>

\* TTL, lines 70-77 and 80-81, and lines 182-187: every return but the one
\* of line 78, which reads the clock again and is the step TTLSub
TTLCall(c) ==
    /\ ~crashed
    /\ InCall(c, TTL)
    /\ LET key == op[c].parts[2]
           b   == TTLBranch(data, key, now)
       IN  CASE b = "absent" ->
                  /\ Return(c, FALSE, <<>>, -2, ReplyNoKey)
                  /\ UNCHANGED data
             [] b = "noexpiry" ->
                  /\ Return(c, TRUE, <<>>, -1, ReplyInt(-1))
                  /\ UNCHANGED data
             [] b = "future" ->
                  /\ pc' = [pc EXCEPT ![c] = "sub"]
                  /\ op' = [op EXCEPT ![c].seen = now]
                  /\ UNCHANGED <<data, mu, last, net>>
             [] b = "expired" ->
                  /\ data' = Remove(data, key)
                  /\ Return(c, FALSE, <<>>, -2, ReplyNoKey)
    /\ UNCHANGED <<now, tickC, spc, pass, crashed>>

\* TTL, line 78: the second reading of the clock
TTLSub(c) ==
    /\ ~crashed
    /\ pc[c] = "sub"
    /\ LET n == Remaining(data[op[c].parts[2]], now)
       IN  Return(c, TRUE, <<>>, n, ReplyInt(n))
    /\ UNCHANGED <<data, now, tickC, spc, pass, crashed>>

---------------------------------------------------------------------------
(* cleanupExpiredKeys: the background sweep *)

\* line 89: a tick is received
SweepTick ==
    /\ ~crashed
    /\ spc = "wait"
    /\ tickC
    /\ tickC' = FALSE
    /\ spc' = "lock"
    /\ UNCHANGED <<data, mu, now, pc, op, last, pass, net, crashed>>

\* line 90
SweepLock ==
    /\ ~crashed
    /\ spc = "lock"
    /\ mu = "free"
    /\ mu' = "sweeper"
    /\ spc' = "crit"
    /\ UNCHANGED <<data, now, tickC, pc, op, last, pass, net, crashed>>

\* lines 91-97
SweepPass ==
    /\ ~crashed
    /\ spc = "crit"
    /\ data' = SweepData(data, now)
    /\ pass' = [removed |-> DOMAIN data \ DOMAIN data',
                kept    |-> {k \in DOMAIN data' : ~IsZero(data'[k].expiry)}]
    /\ mu' = "free"
    /\ spc' = "wait"
    /\ UNCHANGED <<now, tickC, pc, op, last, net, crashed>>

---------------------------------------------------------------------------

\* the steps of the system with clients C sending lines of L
Step(C, L) ==
    \/ Tick
    \/ \E c \in C : Accept(c)
    \/ \E c \in C : \E line \in L : handleRequest(c, line)
    \/ \E c \in C : ReadError(c)
    \/ \E c \in C : Lock(c)
    \/ \E c \in C : Set(c)
    \/ \E c \in C : Get(c)
    \/ \E c \in C : Delete(c)
    \/ \E c \in C : TTLCall(c)
    \/ \E c \in C : TTLSub(c)
    \/ SweepTick
    \/ SweepLock
    \/ SweepPass

\* one client with the whole repertoire
Next == Step(Solo, Lines)

Spec == Init /\ [][Next]_vars

\* two clients with a small repertoire
NextDuo == Step(Conns, FewLines)

SpecDuo == Init /\ [][NextDuo]_vars

\* one client with a small repertoire whose peer may go away
NextNet == Step(Solo, FewLines) \/ \E c \in Solo : PeerGone(c)

SpecNet == Init /\ [][NextNet]_vars

\* one client with a small repertoire
NextLive == Step(Solo, FewLines)

\* the clock advances; the sweep task receives its tick, is not starved of
\* the lock (sync.Mutex hands the lock to a waiter that has waited long)
\* and runs its pass; a task that holds the lock runs to its Unlock
Fairness ==
    /\ WF_vars(Tick)
    /\ WF_vars(SweepTick)
    /\ SF_vars(SweepLock)
    /\ WF_vars(SweepPass)
    /\ \A c \in Solo :
          WF_vars(Set(c) \/ Get(c) \/ Delete(c) \/ TTLCall(c) \/ TTLSub(c))

SpecLive == Init /\ [][NextLive]_vars /\ Fairness

---------------------------------------------------------------------------
(* Properties *)

\* the step in which the call of store operation `name` by c returns
Returns(c, name) ==
    /\ pc[c] \in {"crit", "sub"}
    /\ ToUpper(op[c].parts[1]) = name
    /\ pc'[c] = "read"

\* the key of the store call c is in
KeyOf(c) == op[c].parts[2]

\* d without key x, every other entry as it was
Without(d, x, d2) ==
    /\ DOMAIN d2 = DOMAIN d \ {x}
    /\ \A y \in DOMAIN d2 : d2[y] = d[y]

\* C1: a line that splits into zero tokens does not crash the handler: the
\* process keeps running (in this model the only panic is the one of a line
\* without tokens, so the process never dies).
C1_BlankLineDoesNotCrash == ~crashed

\* C2: Get(k) returns (v, found) exactly when k has an entry with value v
\* that has no expiry or an expiry strictly later than the clock; otherwise
\* (k absent, or expiry at or before the clock) it returns not found.
C2_GetContract ==
    [][\A c \in Conns :
         Returns(c, GET) =>
           LET k == KeyOf(c)
               served == /\ k \in DOMAIN data
                         /\ (data[k].expiry = 0 \/ data[k].expiry > now)
           IN  /\ last'.found <=> served
               /\ served => last'.value = data[k].value]_vars

\* a GET answered with the value of an entry whose expiry is still ahead
C2_Witness ==
    /\ last.parts = <<GET, K>>
    /\ last.found
    /\ K \in DOMAIN data
    /\ last.value = data[K].value
    /\ data[K].expiry > now

\* C3: TTL(k) has exactly four outcomes: k absent gives (-2, not found); k
\* without expiry gives (-1, found); k with its expiry ahead gives (whole
\* seconds of expiry minus now, found); k with its expiry passed gives
\* (-2, not found) and k is deleted.  "now" is allowed to be any instant
\* between the call's first reading of the clock and its return.
C3_TTLFourOutcomes ==
    [][\A c \in Conns :
         Returns(c, TTL) =>
           LET k  == KeyOf(c)
               t0 == IF pc[c] = "sub" THEN op[c].seen ELSE now
           IN  IF k \notin DOMAIN data
               THEN last'.n = -2 /\ ~last'.found /\ data' = data
               ELSE IF data[k].expiry = 0
               THEN last'.n = -1 /\ last'.found /\ data' = data
               ELSE \E t \in t0..now :
                      \/ /\ data[k].expiry > t
                         /\ last'.found
                         /\ last'.n = (data[k].expiry - t) \div Second
                         /\ data' = data
                      \/ /\ data[k].expiry <= t
                         /\ ~last'.found
                         /\ last'.n = -2
                         /\ Without(data, k, data')]_vars

\* the step is the return of a Set or a Delete of key k
Rewrites(k) ==
    \E c \in Conns : (Returns(c, SET) \/ Returns(c, DEL)) /\ KeyOf(c) = k

\* the step is the return of a Get or a TTL of key k by c
Reads(c, k) == (Returns(c, GET) \/ Returns(c, TTL)) /\ KeyOf(c) = k

\* the clock reading at which the returning Get or TTL of c tested the expiry
TestedAt(c) == IF pc[c] = "sub" THEN op[c].seen ELSE now

\* C4: for a key set with a positive TTL (its entry has expiry E) and not
\* set or deleted again: before E no step, a sweep pass included, removes or
\* changes the entry, and every Get and TTL executed before E reports it
\* present; every Get and TTL executed after E plus one sweep interval
\* reports it absent.
C4_ExpiryWindow ==
    [][\A k \in DOMAIN data :
         data[k].expiry # 0 =>
           /\ (now < data[k].expiry /\ ~Rewrites(k))
                 => (k \in DOMAIN data' /\ data'[k] = data[k])
           /\ \A c \in Conns :
                 (Reads(c, k) /\ TestedAt(c) < data[k].expiry)
                    => last'.found
           /\ \A c \in Conns :
                 (Reads(c, k) /\ TestedAt(c) > data[k].expiry + SweepInterval)
                    => ~last'.found]_vars

\* a sweep pass kept k, whose expiry was ahead, and a GET found it
C4_Witness ==
    /\ K \in pass.kept
    /\ last.parts = <<GET, K>>
    /\ last.timed
    /\ last.found
    /\ K \in DOMAIN data
    /\ data[K].expiry > now

\* C5: whenever Get(k) or TTL(k) reports not found, k is absent from the
\* map when the call returns; and a TTL of an absent key returns -2, not
\* found, and writes "-2".
C5_LazyDeleteIsReal ==
    [][\A c \in Conns :
         /\ (Returns(c, GET) \/ Returns(c, TTL))
               => (~last'.found => KeyOf(c) \notin DOMAIN data')
         /\ (Returns(c, TTL) /\ KeyOf(c) \notin DOMAIN data)
               => (last'.n = -2 /\ ~last'.found /\ last'.reply = ReplyNoKey)
      ]_vars

\* a GET found an entry with a passed expiry, reported not found, and the
\* key is gone
C5_Witness ==
    /\ last.parts = <<GET, K>>
    /\ last.had
    /\ last.timed
    /\ ~last.found
    /\ K \notin DOMAIN data

\* C6: a SET without EX replaces the whole entry: whatever the key held,
\* it then holds the new value and no expiry; TTL of an entry without
\* expiry returns -1; and no Get, TTL or sweep pass removes such an entry.
C6_SetReplacesEntry ==
    [][/\ \A c \in Conns :
            (Returns(c, SET) /\ Len(op[c].parts) = 3)
               => /\ KeyOf(c) \in DOMAIN data'
                  /\ data'[KeyOf(c)] =
                        [value |-> op[c].parts[3], expiry |-> 0]
       /\ \A c \in Conns :
            (Returns(c, TTL) /\ KeyOf(c) \in DOMAIN data
                             /\ data[KeyOf(c)].expiry = 0)
               => (last'.found /\ last'.n = -1)
       /\ \A k \in DOMAIN data :
            (data[k].expiry = 0 /\ (spc = "crit" \/ \E c \in Conns : Reads(c, k)))
               => (k \in DOMAIN data' /\ data'[k] = data[k])]_vars

\* SET k -1 was answered for a key whose entry had an expiry, and the entry
\* is now the new value without expiry
C6_Witness ==
    /\ last.parts = <<SET, K, MinusOne>>
    /\ last.timed
    /\ K \in DOMAIN data
    /\ data[K] = [value |-> MinusOne, expiry |-> 0]

\* C7: a key set without EX, or with EX 0 or a negative EX, gets an entry
\* without expiry, and an entry without expiry stays in the map with its
\* value through every step that is not a DEL or a SET of that key; a Get
\* of it finds that value.
C7_NoExpiryPersists ==
    [][/\ \A c \in Conns :
            (Returns(c, SET) /\ (~op[c].hasDur \/ op[c].dur <= 0))
               => /\ KeyOf(c) \in DOMAIN data'
                  /\ data'[KeyOf(c)] =
                        [value |-> op[c].parts[3], expiry |-> 0]
       /\ \A k \in DOMAIN data :
            data[k].expiry = 0 =>
              /\ ~Rewrites(k) => (k \in DOMAIN data' /\ data'[k] = data[k])
              /\ \A c \in Conns :
                    (Returns(c, GET) /\ KeyOf(c) = k)
                       => (last'.found /\ last'.value = data[k].value)]_vars

\* at the end of the clock's range, after a sweep pass that removed k, a GET
\* still finds j, which was set without EX
C7_Witness ==
    /\ now = StartTime + MaxSeconds * Second
    /\ pass.removed = {K}
    /\ last.parts = <<GET, J>>
    /\ last.found
    /\ last.value = MinusOne
    /\ J \in DOMAIN data
    /\ data[J].expiry = 0

\* the shapes of SET the protocol names
SetShape(parts) ==
    Len(parts) = 3 \/ (Len(parts) = 5 /\ ToUpper(parts[4]) = EX)

IsSetLine(parts) == parts # <<>> /\ ToUpper(parts[1]) = SET

\* C8: a SET line is accepted only with exactly 3 tokens, or with exactly 5
\* tokens whose fourth is EX; a SET line of any other shape never reaches
\* the store and is answered with the arity error.
C8_SetArity ==
    /\ \A c \in Conns :
          (pc[c] \in {"lock", "crit"} /\ IsSetLine(op[c].parts))
             => SetShape(op[c].parts)
    /\ (IsSetLine(last.parts) /\ ~SetShape(last.parts))
          => last.reply = ReplySetArity

\* a non-empty token of decimal digits
IsNonNegativeInteger(tok) ==
    tok # <<>> /\ \A i \in 1..Len(tok) : IsDigit(tok[i])

IsSetExLine(parts) ==
    IsSetLine(parts) /\ Len(parts) = 5 /\ ToUpper(parts[4]) = EX

\* C9: SET k v EX x reaches the store and is answered OK only when x is a
\* non-negative integer; for every other x the reply is the
\* invalid-expire-time error.
C9_ExpireArgument ==
    /\ \A c \in Conns :
          (pc[c] \in {"lock", "crit"} /\ IsSetExLine(op[c].parts))
             => IsNonNegativeInteger(op[c].parts[5])
    /\ IsSetExLine(last.parts)
          => IF IsNonNegativeInteger(last.parts[5])
             THEN last.reply = ReplyOK
             ELSE last.reply = ReplyBadExpire

\* an entry that one of the two clients' SET lines writes as a whole:
\* SET k -1 (no expiry) or set k v ex 1 (an expiry)
WholeEntry(e) ==
    \/ e.value = MinusOne /\ e.expiry = 0
    \/ e.value = V /\ e.expiry # 0

\* C10: with two connections setting the same key, the entry after a Set
\* returns is wholly that Set's: its value, and its expiry computed from
\* its duration at its clock reading; the map never holds the value of one
\* SET with the expiry of the other.
C10_LastSetWinsWhole ==
    [][/\ \A c \in Conns :
            Returns(c, SET)
               => /\ KeyOf(c) \in DOMAIN data'
                  /\ data'[KeyOf(c)].value = op[c].parts[3]
                  /\ data'[KeyOf(c)].expiry =
                        IF op[c].hasDur /\ op[c].dur > 0
                        THEN now + op[c].dur ELSE 0
       /\ \A k \in DOMAIN data' : WholeEntry(data'[k])]_vars

\* c1's SET k -1 has replaced an entry with an expiry while c2 is in a SET
\* of the same key, waiting for the lock
C10_Witness ==
    /\ last.conn = "c1"
    /\ last.parts = <<SET, K, MinusOne>>
    /\ last.timed
    /\ pc["c2"] = "lock"
    /\ IsSetExLine(op["c2"].parts)
    /\ KeyOf("c2") = K
    /\ data[K] = [value |-> MinusOne, expiry |-> 0]

\* C11: a read failure or a write failure on a connection ends its session:
\* a closed session stays closed, and once a write on a connection has
\* failed its handler takes no further step but closing - it handles no
\* further line and starts no further store operation.
C11_FailureEndsSession ==
    [][\A c \in Conns :
         /\ pc[c] = "closed" => pc'[c] = "closed"
         /\ net[c] = "failed"
               => /\ pc'[c] \in {pc[c], "closed"}
                  /\ last' # last => last'.conn # c]_vars

\* a reply that is exactly one line
OneLine(r) ==
    /\ Len(r) > 0
    /\ r[Len(r)] = "\n"
    /\ \A i \in 1..(Len(r) - 1) : r[i] # "\n"

\* c has read a line with a store call and not yet written its reply
InFlight(c) == pc[c] \in {"lock", "crit", "sub"}

\* C12: every line with at least one token gets exactly one reply line,
\* after which its session awaits the next line: a line answered at once
\* and a line whose store call returns each write one line and leave the
\* session reading, no line that was read is left without its reply, and a
\* session is closed only by a read failure, which writes nothing.
C12_OneReplyPerLine ==
    [][\A c \in Conns :
         /\ (pc[c] = "read" /\ pc'[c] = "read" /\ last' # last
                /\ last'.conn = c)
               => OneLine(last'.reply)
         /\ (InFlight(c) /\ ~InFlight(c)')
               => /\ pc'[c] = "read"
                  /\ last'.conn = c
                  /\ last'.parts = op[c].parts
                  /\ OneLine(last'.reply)
         /\ InFlight(c)' => ~crashed'
         /\ (pc[c] # "closed" /\ pc'[c] = "closed")
               => pc[c] = "read" /\ last' = last]_vars

\* C13: DEL k is always answered OK and leaves entries without k and with
\* every other key's entry as it was; on an absent key it leaves entries
\* unchanged, and deleting k once more from the result changes nothing, so
\* two DELs in a row leave the same entries as one.
C13_DelIdempotent ==
    [][\A c \in Conns :
         Returns(c, DEL)
            => /\ last'.reply = ReplyOK
               /\ Without(data, KeyOf(c), data')
               /\ KeyOf(c) \notin DOMAIN data => data' = data
               /\ Remove(data', KeyOf(c)) = data']_vars

\* DEL k on an absent key was answered OK while the other key is held
C13_Witness ==
    /\ Len(last.parts) = 2
    /\ ToUpper(last.parts[1]) = DEL
    /\ last.parts[2] = K
    /\ ~last.had
    /\ last.reply = ReplyOK
    /\ K \notin DOMAIN data
    /\ J \in DOMAIN data

\* C14: the TTL sentinels are reserved. Of the last answered TTL k: when
\* it reported found for an entry with an expiry, its number is at least 0
\* and at most the seconds asked for at SET (1 is the largest EX of the
\* clients' lines); -1 is returned only for a present key without expiry,
\* and -2 only together with found = false.
C14_SentinelsReserved ==
    (Len(last.parts) = 2 /\ ToUpper(last.parts[1]) = TTL)
       => /\ (last.found /\ last.timed) => (last.n >= 0 /\ last.n <= 1)
          /\ last.n = -1 => (last.found /\ last.had /\ ~last.timed)
          /\ last.n = -2 => ~last.found

\* the connection tasks inside Set, Get, Delete or TTL
Holders == {c \in Conns : pc[c] \in {"crit", "sub"}}

\* the lock is held by exactly the task that is in its critical section
HeldByTheOneInside ==
    /\ \A c \in Conns : c \in Holders <=> mu = c
    /\ spc = "crit" <=> mu = "sweeper"

\* C15: at most one of Set, Get, Delete, TTL and a sweep pass is in its
\* critical section at any time - the lock names the one task inside, in
\* every state - and entries change only in a step of the task that holds
\* the lock, which is the step that releases it.
C15_MutualExclusion ==
    [][/\ HeldByTheOneInside
       /\ HeldByTheOneInside'
       /\ Cardinality(Holders) + (IF spc = "crit" THEN 1 ELSE 0) <= 1
       /\ data' # data => (mu # "free" /\ mu' = "free")]_vars

\* c1 is inside TTL between its two clock readings while c2 and the sweep
\* task wait for the lock
C15_Witness ==
    /\ pc["c1"] = "sub"
    /\ mu = "c1"
    /\ pc["c2"] = "lock"
    /\ spc = "lock"

\* the step that is one pass of the sweep
Sweeps == spc = "crit" /\ spc' = "wait"

\* C16: one sweep pass, a single step at one clock reading, removes every
\* entry whose expiry is set and strictly before the clock, keeps every
\* entry that has no expiry or whose expiry is at or after the clock, adds
\* no entry, and leaves value and expiry of each entry it keeps as they
\* were.
C16_SweepFrame ==
    [][Sweeps
         => /\ now' = now
            /\ DOMAIN data' \subseteq DOMAIN data
            /\ \A k \in DOMAIN data :
                  IF data[k].expiry # 0 /\ data[k].expiry < now
                  THEN k \notin DOMAIN data'
                  ELSE k \in DOMAIN data' /\ data'[k] = data[k]]_vars

\* the pass of the first tick has removed k and kept j, which has no expiry
C16_Witness ==
    /\ now = StartTime + SweepInterval
    /\ spc = "wait"
    /\ pass.removed = {K}
    /\ pass.kept = {}
    /\ K \notin DOMAIN data
    /\ J \in DOMAIN data

\* the last instant of the clock's range at which the ticker fires
LastTick ==
    StartTime + ((MaxSeconds * Second) \div SweepInterval) * SweepInterval

\* k has an entry whose expiry is set and lies before the last tick
Due(k) ==
    /\ k \in DOMAIN data
    /\ ~IsZero(data[k].expiry)
    /\ Before(data[k].expiry, LastTick)

\* C17: under fairness of the clock, the sweep task and the lock, an entry
\* with an expiry does not stay in entries forever while the process runs:
\* every entry whose expiry lies before a tick of the sweep is eventually
\* gone from entries, whether or not a client touches its key again (when
\* a later SET replaces it, the same holds of the entry that SET wrote).
C17_ExpiredEntryGoes ==
    \A k \in {K, J} : Due(k) ~> (~Due(k) \/ crashed)

\* the sweep has removed k, and the last command answered is still the
\* SET k v EX 1 that wrote it: nothing touched the key in between
C17_Witness ==
    /\ pass.removed = {K}
    /\ K \notin DOMAIN data
    /\ IsSetExLine(last.parts)
    /\ last.parts[2] = K
    /\ last.reply = ReplyOK
    /\ \A c \in Conns : pc[c] \in {"none", "read", "closed"}

\* C18: an entry's expiry is fixed by the Set that writes it - the clock at
\* the Set plus the duration asked for, or none - and only a Set of its key
\* changes it while the entry is held; a Get or TTL that reports found
\* leaves entries exactly as they were, and a Get that reports found
\* returns the held value, so concurrent GETs of a key without expiry all
\* return the same value.
C18_ReadsLeaveEntries ==
    [][/\ \A c \in Conns :
            /\ ((Returns(c, GET) \/ Returns(c, TTL)) /\ last'.found)
                  => data' = data
            /\ (Returns(c, GET) /\ last'.found)
                  => last'.value = data[KeyOf(c)].value
            /\ Returns(c, SET)
                  => data'[KeyOf(c)].expiry =
                        IF op[c].hasDur /\ op[c].dur > 0
                        THEN now + op[c].dur ELSE ZeroTime
       /\ \A k \in DOMAIN data \cap DOMAIN data' :
            data'[k].expiry # data[k].expiry
               => \E c \in Conns : Returns(c, SET) /\ KeyOf(c) = k]_vars

\* c2's GET of k, held without expiry, has returned its value while c1 is
\* inside a GET of the same key
C18_Witness ==
    /\ last.conn = "c2"
    /\ Len(last.parts) = 2
    /\ ToUpper(last.parts[1]) = GET
    /\ last.parts[2] = K
    /\ last.found
    /\ last.value = MinusOne
    /\ pc["c1"] = "crit"
    /\ ToUpper(op["c1"].parts[1]) = GET
    /\ KeyOf("c1") = K
    /\ data[K] = [value |-> MinusOne, expiry |-> ZeroTime]

\* a sweep pass at the present clock would remove k
SweepRemoves(k) == k \notin DOMAIN SweepData(data, now)

\* Get at the present clock would treat k as expired
GetExpires(k) == ~GetOutcome(data, k, now).found

\* TTL at the present clock would treat k as expired
TTLExpires(k) == TTLBranch(data, k, now) = "expired"

\* C19: lazy expiry and the sweep use the same expiry test: for every
\* entry, at every clock value, a sweep pass removes it exactly when Get and
\* TTL at that clock value treat it as expired, the instant at which the
\* clock equals the expiry included.
C19_SameExpiryTest ==
    \A k \in DOMAIN data :
       /\ SweepRemoves(k) <=> GetExpires(k)
       /\ SweepRemoves(k) <=> TTLExpires(k)

\* C19, amended: the two tests agree at every clock value but one. At the
\* instant at which the clock equals the entry's expiry Get and TTL treat
\* the entry as expired and a sweep pass keeps it; at every other clock
\* value a sweep pass removes the entry exactly when Get and TTL treat it
\* as expired.
C19_SameTestButAtExpiry ==
    \A k \in DOMAIN data :
       IF data[k].expiry = now
       THEN ~SweepRemoves(k) /\ GetExpires(k) /\ TTLExpires(k)
       ELSE /\ SweepRemoves(k) <=> GetExpires(k)
            /\ SweepRemoves(k) <=> TTLExpires(k)

\* at the instant of the first tick a sweep pass kept k, whose expiry is
\* that instant, and a GET at the same instant did not find it
C19_Witness ==
    /\ now = StartTime + SweepInterval
    /\ pass.kept = {K}
    /\ last.parts = <<GET, K>>
    /\ last.timed
    /\ ~last.found
    /\ K \notin DOMAIN data

\* C20: the GET reply tells found from missing: of the last answered
\* GET k, the reply is the missing marker $-1 exactly when Get reported
\* not found, whatever value a SET has stored.
C20_MarkerOnlyWhenMissing ==
    (Len(last.parts) = 2 /\ ToUpper(last.parts[1]) = GET)
       => (last.reply = ReplyNil <=> ~last.found)

=============================================================================
